---- MODULE Spec2Model ----
(***************************************************************************)
(* Model of scripts/convert-bmp.py: the batch conversion of the Wolf3D     *)
(* wall textures and enemy sprite frames from BMP to PNG.                  *)
(*                                                                         *)
(* Two state machines share the module.                                    *)
(*   Spec / FairSpec : main(), one step per loop iteration or print, with  *)
(*                     the file system answering each visit (source        *)
(*                     missing, good, undecodable, destination             *)
(*                     unwritable) and each makedirs (done or raising).    *)
(*   ImageSpec       : the pixel work of convert_wall and convert_enemy on *)
(*                     one source image drawn from a bounded set.          *)
(***************************************************************************)
EXTENDS Integers, Sequences, FiniteSets, TLC

VARIABLES
    pc,           \* position of main(): start, walls, enemies, frames, summary,
                  \* done, or failed (an exception left main)
    wi,           \* number of WALL_MAP entries already visited
    ci,           \* number of ENEMIES categories already finished
    fi,           \* number of frames of the current category already visited
    wall_count,   \* local wall_count of main
    enemy_count,  \* local enemy_count of main
    written,      \* destination paths saved by img.save in this run
    dirs,         \* directories ensure_dir has made sure of in this run
    visited,      \* the convert_wall / convert_enemy calls so far, in order
    call,         \* src_path and dst_path of the latest of those calls
    out,          \* the lines printed so far
    failure,      \* the exception that ended main, "none" while there is none
    ipc,          \* ImageSpec: position of the conversion of the one image
    src_img,      \* ImageSpec: the source file's image as Image.open reads it
    img,          \* ImageSpec: the in-memory image (after convert("RGBA"))
    saved         \* ImageSpec: the images handed to img.save, in order

vars == << pc, wi, ci, fi, wall_count, enemy_count, written, dirs, visited,
           call, out, failure, ipc, src_img, img, saved >>

batchVars == << pc, wi, ci, fi, wall_count, enemy_count, written, dirs,
                visited, call, out, failure >>

imageVars == << ipc, src_img, img, saved >>

----------------------------------------------------------------------------
(* Bounds of the exploration.                                              *)

\* The runs explored are the run in which every source is missing and the
\* runs in which at most MaxSkipped sources are missing.
MaxSkipped == 1

\* Source images are 1..MaxW pixels wide and 1 or 2 pixels high.
MaxW == 2

----------------------------------------------------------------------------
(* Paths.                                                                  *)

Join(a, b) == a \o "/" \o b

SRC == "/tmp/wolf3d-assets"

\* Directory holding the script; DST is built relative to it.
ScriptDir == "/repo/scripts"

DST == Join(Join(Join(ScriptDir, ".."), "public"), "assets")

----------------------------------------------------------------------------
(* The static tables.                                                      *)

WALL_MAP ==
    << << "greybrick1.bmp", "wall_0.png" >>,
       << "bluestone1.BMP", "wall_1.png" >>,
       << "wood1.BMP",      "wall_2.png" >>,
       << "stone1.BMP",     "wall_3.png" >>,
       << "bluestone3.BMP", "wall_4.png" >>,
       << "wood3.BMP",      "wall_5.png" >>,
       << "greybrick5.bmp", "wall_6.png" >>,
       << "brick1.BMP",     "wall_7.png" >>,
       << "door1.BMP",      "door_0.png" >>,
       << "elevator1.BMP",  "door_1.png" >> >>

ENEMIES ==
    << [prefix |-> "GARD", dirname |-> "guard",
        frames |-> << "A","B","C","D","E","F","G","H","I","J","K","L","M","N" >>],
       [prefix |-> "OFFI", dirname |-> "officer",
        frames |-> << "A","B","C","D","E","F","G","H","I","J","K","L","M","N","O" >>],
       [prefix |-> "NZSS", dirname |-> "ss",
        frames |-> << "A","B","C","D","E","F","G","H","I","J","K","L","M","N" >>],
       [prefix |-> "MTNT", dirname |-> "mutant",
        frames |-> << "A","B","C","D","E","F","G","H","I","J","K","L","M","N","O","P" >>] >>

----------------------------------------------------------------------------
(* Characters: code points, str comparison and str.lower on one letter.    *)

Letters == << "A","B","C","D","E","F","G","H","I","J","K","L","M",
              "N","O","P","Q","R","S","T","U","V","W","X","Y","Z",
              "a","b","c","d","e","f","g","h","i","j","k","l","m",
              "n","o","p","q","r","s","t","u","v","w","x","y","z" >>

\* ord(): 'A'..'Z' are 65..90, 'a'..'z' are 97..122.
Ord(c) ==
    LET i == CHOOSE k \in 1..Len(Letters) : Letters[k] = c
    IN  IF i <= 26 THEN 64 + i ELSE 96 + (i - 26)

\* chr() on the code points of Letters.
Chr(n) == IF n <= 90 THEN Letters[n - 64] ELSE Letters[n - 96 + 26]

\* str.lower() of a one-character string.
Lower(c) == IF Ord(c) >= 65 /\ Ord(c) <= 90 THEN Chr(Ord(c) + 32) ELSE c

IsWalkingStrict(frame) == Ord(frame) < Ord("E")

\* is_walking = frame <= "E"
IsWalking(frame) == Ord(frame) <= Ord("E")

\* rotation = "1" if is_walking else "0"
Rotation(frame) == IF IsWalking(frame) THEN "1" ELSE "0"

EnemySrcFile(prefix, frame) == prefix \o frame \o Rotation(frame) \o ".bmp"

EnemyDstFile(frame) == Lower(frame) \o ".png"

EnemySrcPath(prefix, frame) ==
    Join(Join(SRC, "w3d_enemies_fix"), EnemySrcFile(prefix, frame))

OutDir(dirname) == Join(Join(DST, "enemies"), dirname)

EnemyDstPath(dirname, frame) == Join(OutDir(dirname), EnemyDstFile(frame))

WallSrcPath(src_file) == Join(Join(SRC, "w3d_textures_fix"), src_file)

WallDstPath(dst_file) == Join(Join(DST, "walls"), dst_file)

----------------------------------------------------------------------------
(* What the file system answers when one item is visited.                  *)
(*   missing     : os.path.exists(src_path) is False                       *)
(*   good        : the source opens and the destination is saved           *)
(*   undecodable : Image.open / convert raises                             *)
(*   unwritable  : img.save raises                                         *)

FsAnswers == { "missing", "good", "undecodable", "unwritable" }

ConvertWallNoCheck(src_file, dst_file, fs, disk) ==
    CASE fs \in {"missing", "undecodable"} ->
           [ret |-> FALSE, raised |-> "decode", disk |-> disk,
            printed |-> << >>]
      [] fs = "unwritable" ->
           [ret |-> FALSE, raised |-> "encode", disk |-> disk,
            printed |-> << >>]
      [] OTHER ->
           [ret |-> TRUE, raised |-> "none",
            disk |-> disk \cup {WallDstPath(dst_file)},
            printed |-> << [line |-> "OK", arg |-> src_file] >>]

\* convert_wall(src_file, dst_file) with the file system answering fs and
\* disk the destination files saved so far.
ConvertWall(src_file, dst_file, fs, disk) ==
    LET src_path == WallSrcPath(src_file)
        dst_path == WallDstPath(dst_file)
    IN  CASE fs = "missing" ->
               [ret |-> FALSE, raised |-> "none", disk |-> disk,
                printed |-> << [line |-> "SKIP", arg |-> src_path] >>]
          [] fs = "undecodable" ->
               [ret |-> FALSE, raised |-> "decode", disk |-> disk,
                printed |-> << >>]
          [] fs = "unwritable" ->
               [ret |-> FALSE, raised |-> "encode", disk |-> disk,
                printed |-> << >>]
          [] OTHER ->
               [ret |-> TRUE, raised |-> "none",
                disk |-> disk \cup {dst_path},
                printed |-> << [line |-> "OK", arg |-> src_file] >>]

ConvertEnemySkipTrue(src_path, dst_path, fs, disk) ==
    CASE fs = "missing" ->
           [ret |-> TRUE, raised |-> "none", disk |-> disk,
            printed |-> << [line |-> "SKIP", arg |-> src_path] >>]
      [] fs = "undecodable" ->
           [ret |-> FALSE, raised |-> "decode", disk |-> disk,
            printed |-> << >>]
      [] fs = "unwritable" ->
           [ret |-> FALSE, raised |-> "encode", disk |-> disk,
            printed |-> << >>]
      [] OTHER ->
           [ret |-> TRUE, raised |-> "none",
            disk |-> disk \cup {dst_path}, printed |-> << >>]

\* convert_enemy(src_path, dst_path): as convert_wall, without the OK line.
ConvertEnemy(src_path, dst_path, fs, disk) ==
    CASE fs = "missing" ->
           [ret |-> FALSE, raised |-> "none", disk |-> disk,
            printed |-> << [line |-> "SKIP", arg |-> src_path] >>]
      [] fs = "undecodable" ->
           [ret |-> FALSE, raised |-> "decode", disk |-> disk,
            printed |-> << >>]
      [] fs = "unwritable" ->
           [ret |-> FALSE, raised |-> "encode", disk |-> disk,
            printed |-> << >>]
      [] OTHER ->
           [ret |-> TRUE, raised |-> "none",
            disk |-> disk \cup {dst_path}, printed |-> << >>]

----------------------------------------------------------------------------
(* Pieces of main().                                                       *)

CountedAlways(count, ret) == count + 1

\* if convert_xxx(...): xxx_count += 1
Counted(count, ret) == IF ret THEN count + 1 ELSE count

PcAfterCallSwallowed(raised, next) == next

\* The calls in main are not wrapped in try: an exception leaves main.
PcAfterCall(raised, next) == IF raised = "none" THEN next ELSE "failed"

EnemyCountCarried(wc) == wc

\* enemy_count = 0
EnemyCountStart(wc) == 0

WallsLoopLeftEarly(i) == i >= 1

\* The for loop over WALL_MAP.items() is over once every entry was visited.
WallsLoopDone(i) == i = Len(WALL_MAP)

\* The for loop over a category's frames is over.
FramesLoopDone(c, f) == f = Len(ENEMIES[c].frames)

\* The for loop over ENEMIES is over.
EnemiesLoopDone(c) == c = Len(ENEMIES)

\* Items converted (one file saved each) and items skipped so far.
NumConverted == Cardinality(written)
NumSkipped == Len(visited) - Cardinality(written)

Min(a, b) == IF a <= b THEN a ELSE b

\* The answers explored at the next visit (see MaxSkipped); a raising
\* answer ends the run and is always explored.
Explored(fs) ==
    CASE fs = "missing" -> NumConverted = 0 \/ NumSkipped + 1 <= MaxSkipped
      [] fs = "good"    -> NumSkipped <= MaxSkipped
      [] OTHER          -> TRUE

Visit(fs, r) == [fs |-> fs, ret |-> r.ret, raised |-> r.raised]

----------------------------------------------------------------------------
(* main(), one action per step.                                            *)

\* main has not started; the image machine is idle in Spec.
Init ==
    /\ pc = "start"
    /\ wi = 0
    /\ ci = 0
    /\ fi = 0
    /\ wall_count = 0
    /\ enemy_count = 0
    /\ written = {}
    /\ dirs = {}
    /\ visited = << >>
    /\ call = [src |-> "", dst |-> ""]
    /\ out = << >>
    /\ failure = "none"
    /\ ipc = "idle"
    /\ src_img = << >>
    /\ img = << >>
    /\ saved = << >>

\* Lines 71-76: banner, ensure_dir(DST/walls), wall_count = 0.
Start ==
    /\ pc = "start"
    /\ \E ok \in BOOLEAN :
         IF ok
         THEN /\ dirs' = dirs \cup { Join(DST, "walls") }
              /\ wall_count' = 0
              /\ out' = out \o << [line |-> "BANNER", arg |-> ""],
                                  [line |-> "WALLS", arg |-> ""] >>
              /\ pc' = "walls"
              /\ failure' = failure
         ELSE /\ out' = out \o << [line |-> "BANNER", arg |-> ""],
                                  [line |-> "WALLS", arg |-> ""] >>
              /\ pc' = "failed"
              /\ failure' = "mkdir"
              /\ UNCHANGED << dirs, wall_count >>
    /\ UNCHANGED << wi, ci, fi, enemy_count, written, visited, call >>
    /\ UNCHANGED imageVars

\* Lines 77-79: one iteration of the loop over WALL_MAP.items().
ConvertWallStep ==
    /\ pc = "walls"
    /\ ~WallsLoopDone(wi)
    /\ wi < Len(WALL_MAP)                \* items() yields no further entry
    /\ LET src_file == WALL_MAP[wi + 1][1]
           dst_file == WALL_MAP[wi + 1][2]
       IN  /\ call' = [src |-> WallSrcPath(src_file),
                       dst |-> WallDstPath(dst_file)]
           /\ \E fs \in FsAnswers :
                /\ Explored(fs)
                /\ LET r == ConvertWall(src_file, dst_file, fs, written)
                   IN  /\ written' = r.disk
                       /\ out' = out \o r.printed
                       /\ visited' = Append(visited, Visit(fs, r))
                       /\ failure' = r.raised
                       /\ pc' = PcAfterCall(r.raised, "walls")
                       /\ wall_count' = IF r.raised = "none"
                                        THEN Counted(wall_count, r.ret)
                                        ELSE wall_count
                       /\ wi' = wi + 1
    /\ UNCHANGED << ci, fi, enemy_count, dirs >>
    /\ UNCHANGED imageVars

\* Lines 80-84: the wall total, the enemies header, enemy_count = 0.
ReportWalls ==
    /\ pc = "walls"
    /\ WallsLoopDone(wi)
    /\ out' = out \o << [line |-> "WALL_TOTAL", arg |-> wall_count],
                        [line |-> "ENEMIES", arg |-> ""] >>
    /\ enemy_count' = EnemyCountStart(wall_count)
    /\ pc' = "enemies"
    /\ UNCHANGED << wi, ci, fi, wall_count, written, dirs, visited, call,
                    failure >>
    /\ UNCHANGED imageVars

\* Lines 85-87: next category, ensure_dir(out_dir).
EnterCategory ==
    /\ pc = "enemies"
    /\ ~EnemiesLoopDone(ci)
    /\ \E ok \in BOOLEAN :
         IF ok
         THEN /\ dirs' = dirs \cup { OutDir(ENEMIES[ci + 1].dirname) }
              /\ pc' = "frames"
              /\ failure' = failure
         ELSE /\ pc' = "failed"
              /\ failure' = "mkdir"
              /\ dirs' = dirs
    /\ fi' = 0
    /\ UNCHANGED << wi, ci, wall_count, enemy_count, written, visited, call,
                    out >>
    /\ UNCHANGED imageVars

\* Lines 88-98: one iteration of the loop over the category's frames.
ConvertEnemyStep ==
    /\ pc = "frames"
    /\ ~FramesLoopDone(ci + 1, fi)
    /\ LET cat == ENEMIES[ci + 1]
           frame == cat.frames[fi + 1]
           src_path == EnemySrcPath(cat.prefix, frame)
           dst_path == EnemyDstPath(cat.dirname, frame)
       IN  /\ call' = [src |-> src_path, dst |-> dst_path]
           /\ \E fs \in FsAnswers :
                /\ Explored(fs)
                /\ LET r == ConvertEnemy(src_path, dst_path, fs, written)
                   IN  /\ written' = r.disk
                       /\ out' = out \o r.printed
                       /\ visited' = Append(visited, Visit(fs, r))
                       /\ failure' = r.raised
                       /\ pc' = PcAfterCall(r.raised, "frames")
                       /\ enemy_count' = IF r.raised = "none"
                                         THEN Counted(enemy_count, r.ret)
                                         ELSE enemy_count
                       /\ fi' = fi + 1
    /\ UNCHANGED << wi, ci, wall_count, dirs >>
    /\ UNCHANGED imageVars

\* Line 99: the per-category line, after the category's last frame.
CategorySummary ==
    /\ pc = "frames"
    /\ FramesLoopDone(ci + 1, fi)
    /\ out' = Append(out, [line |-> "CATEGORY",
                           arg |-> << ENEMIES[ci + 1].prefix,
                                      Len(ENEMIES[ci + 1].frames),
                                      ENEMIES[ci + 1].dirname >>])
    /\ ci' = ci + 1
    /\ pc' = "enemies"
    /\ UNCHANGED << wi, fi, wall_count, enemy_count, written, dirs, visited,
                    call, failure >>
    /\ UNCHANGED imageVars

\* Line 100: the enemy total.
ReportEnemies ==
    /\ pc = "enemies"
    /\ EnemiesLoopDone(ci)
    /\ out' = Append(out, [line |-> "ENEMY_TOTAL", arg |-> enemy_count])
    /\ pc' = "summary"
    /\ UNCHANGED << wi, ci, fi, wall_count, enemy_count, written, dirs,
                    visited, call, failure >>
    /\ UNCHANGED imageVars

\* Line 102: the Done line; main returns.
Done ==
    /\ pc = "summary"
    /\ out' = Append(out, [line |-> "DONE",
                           arg |-> << wall_count, enemy_count >>])
    /\ pc' = "done"
    /\ UNCHANGED << wi, ci, fi, wall_count, enemy_count, written, dirs,
                    visited, call, failure >>
    /\ UNCHANGED imageVars

Next ==
    \/ Start
    \/ ConvertWallStep
    \/ ReportWalls
    \/ EnterCategory
    \/ ConvertEnemyStep
    \/ CategorySummary
    \/ ReportEnemies
    \/ Done

----------------------------------------------------------------------------
(* Images.  A pixel is <<r, g, b>> or <<r, g, b, a>>; a palette pixel is   *)
(* an index into Palette.  px maps <<x, y>> to the pixel at column x,      *)
(* row y.                                                                  *)

Palette == << << 152, 0, 136 >>, << 152, 0, 0 >>, << 0, 0, 0 >> >>

SampleColors == { Palette[i] : i \in 1..Len(Palette) }

SampleAlphas == { 0, 255 }

Coords(w, h) == (0..(w - 1)) \X (0..(h - 1))

\* The source files: palette-indexed, RGB and RGBA bitmaps.
SourceImages ==
    UNION { UNION {
        [mode : {"P"}, w : {w}, h : {h},
         px : [Coords(w, h) -> 1..Len(Palette)]]
        \cup
        [mode : {"RGB"}, w : {w}, h : {h},
         px : [Coords(w, h) -> SampleColors]]
        \cup
        [mode : {"RGBA"}, w : {w}, h : {h},
         px : [Coords(w, h) ->
                 { << c[1], c[2], c[3], a >> : c \in SampleColors,
                                               a \in SampleAlphas }]]
        : h \in 1..2 } : w \in 1..MaxW }

\* Image.open(src_path).convert("RGBA"): same size; a pixel with no alpha
\* gets alpha 255, a palette index is looked up first.
ConvertRGBA(file) ==
    [mode |-> "RGBA", w |-> file.w, h |-> file.h,
     px |-> [xy \in Coords(file.w, file.h) |->
               CASE file.mode = "P" ->
                      LET c == Palette[file.px[xy]]
                      IN  << c[1], c[2], c[3], 255 >>
                 [] file.mode = "RGB" ->
                      LET c == file.px[xy]
                      IN  << c[1], c[2], c[3], 255 >>
                 [] OTHER -> file.px[xy]]]

MatchesKeyWithAlpha(p, bg) == p = bg

\* (r, g, b) == (bg[0], bg[1], bg[2])
MatchesKey(p, bg) == << p[1], p[2], p[3] >> = << bg[1], bg[2], bg[3] >>

KeyedCleared(p) == << 0, 0, 0, 0 >>

\* pixels[x, y] = (r, g, b, 0)
Keyed(p) == << p[1], p[2], p[3], 0 >>

\* The nested loops of convert_enemy from the k-th pixel in row-major
\* order on (y outer, x inner), writing into px; bg was read before.
RECURSIVE KeyScan(_, _, _, _, _)
KeyScan(px, bg, w, h, k) ==
    IF k >= w * h
    THEN px
    ELSE LET x == k % w
             y == k \div w
             p == px[<< x, y >>]
         IN  KeyScan(IF MatchesKey(p, bg)
                     THEN [px EXCEPT ![<< x, y >>] = Keyed(p)]
                     ELSE px,
                     bg, w, h, k + 1)

\* Lines 57-65: bg = pixels[0, 0], then the scan.
Colorkey(image) ==
    [image EXCEPT !.px = KeyScan(image.px, image.px[<< 0, 0 >>],
                                 image.w, image.h, 0)]

\* img.save(dst_path, "PNG"): an RGBA PNG holds size and pixels as they are.
SavePNG(image) ==
    [mode |-> "RGBA", w |-> image.w, h |-> image.h, px |-> image.px]

WallImageKeyed(file) == Colorkey(ConvertRGBA(file))

\* Line 46: the image convert_wall saves.
WallImage(file) == ConvertRGBA(file)

----------------------------------------------------------------------------
(* The conversion of one image, one action per statement.                  *)

\* One source file is about to be converted; main is not running.
ImageInit ==
    /\ pc = "start"
    /\ wi = 0
    /\ ci = 0
    /\ fi = 0
    /\ wall_count = 0
    /\ enemy_count = 0
    /\ written = {}
    /\ dirs = {}
    /\ visited = << >>
    /\ call = [src |-> "", dst |-> ""]
    /\ out = << >>
    /\ failure = "none"
    /\ ipc = "file"
    /\ src_img \in SourceImages
    /\ img = << >>
    /\ saved = << >>

\* convert_wall line 46.
WallOpen ==
    /\ ipc = "file"
    /\ img' = WallImage(src_img)
    /\ ipc' = "wall_open"
    /\ UNCHANGED << src_img, saved >>
    /\ UNCHANGED batchVars

\* convert_wall line 47.
WallSave ==
    /\ ipc = "wall_open"
    /\ saved' = Append(saved, SavePNG(img))
    /\ ipc' = "wall_saved"
    /\ UNCHANGED << src_img, img >>
    /\ UNCHANGED batchVars

\* convert_enemy line 56, on the source file.
EnemyOpen ==
    /\ ipc = "file"
    /\ img' = ConvertRGBA(src_img)
    /\ ipc' = "enemy_open"
    /\ UNCHANGED << src_img, saved >>
    /\ UNCHANGED batchVars

\* convert_enemy lines 57-65.
EnemyColorkey ==
    /\ ipc = "enemy_open"
    /\ img' = Colorkey(img)
    /\ ipc' = "enemy_keyed"
    /\ UNCHANGED << src_img, saved >>
    /\ UNCHANGED batchVars

\* convert_enemy line 66.
EnemySave ==
    /\ ipc = "enemy_keyed"
    /\ saved' = Append(saved, SavePNG(img))
    /\ ipc' = "enemy_saved"
    /\ UNCHANGED << src_img, img >>
    /\ UNCHANGED batchVars

\* convert_enemy line 56 again, on the PNG the first pass saved.
EnemyReopen ==
    /\ ipc = "enemy_saved"
    /\ Len(saved) = 1
    /\ img' = ConvertRGBA(saved[1])
    /\ ipc' = "enemy_open"
    /\ UNCHANGED << src_img, saved >>
    /\ UNCHANGED batchVars

ImageNext ==
    \/ WallOpen
    \/ WallSave
    \/ EnemyOpen
    \/ EnemyColorkey
    \/ EnemySave
    \/ EnemyReopen

ImageSpec == ImageInit /\ [][ImageNext]_vars

Spec == Init /\ [][Next]_vars

\* main is one sequential thread: whenever it can take a step it does.
FairSpec == Init /\ [][Next]_vars /\ WF_vars(Next)

----------------------------------------------------------------------------
(* What the claims are stated in: the items in table order, with the file  *)
(* names written out as the specification gives them.                      *)

RECURSIVE ItemsFrom(_)
ItemsFrom(c) ==
    IF c > Len(ENEMIES)
    THEN << >>
    ELSE [k \in 1..Len(ENEMIES[c].frames) |->
            [prefix |-> ENEMIES[c].prefix, dirname |-> ENEMIES[c].dirname,
             frame |-> ENEMIES[c].frames[k]]] \o ItemsFrom(c + 1)

EnemyItems == ItemsFrom(1)

NumWalls == Len(WALL_MAP)

NumItems == NumWalls + Len(EnemyItems)

WalkingFrames == { "A", "B", "C", "D", "E" }

LowercaseOf ==
    "A" :> "a" @@ "B" :> "b" @@ "C" :> "c" @@ "D" :> "d" @@ "E" :> "e" @@
    "F" :> "f" @@ "G" :> "g" @@ "H" :> "h" @@ "I" :> "i" @@ "J" :> "j" @@
    "K" :> "k" @@ "L" :> "l" @@ "M" :> "m" @@ "N" :> "n" @@ "O" :> "o" @@
    "P" :> "p"

ExpectedDigit(frame) == IF frame \in WalkingFrames THEN "1" ELSE "0"

ExpectedSrc(i) ==
    IF i <= NumWalls
    THEN SRC \o "/w3d_textures_fix/" \o WALL_MAP[i][1]
    ELSE LET e == EnemyItems[i - NumWalls]
         IN  SRC \o "/w3d_enemies_fix/" \o e.prefix \o e.frame
                 \o ExpectedDigit(e.frame) \o ".bmp"

ExpectedDst(i) ==
    IF i <= NumWalls
    THEN DST \o "/walls/" \o WALL_MAP[i][2]
    ELSE LET e == EnemyItems[i - NumWalls]
         IN  DST \o "/enemies/" \o e.dirname \o "/"
                 \o LowercaseOf[e.frame] \o ".png"

WallDsts == { ExpectedDst(i) : i \in 1..NumWalls }

EnemyDsts == { ExpectedDst(i) : i \in (NumWalls + 1)..NumItems }

Last(seq) == seq[Len(seq)]

\* This step is a call of convert_wall or convert_enemy.
VisitStep == Len(visited') = Len(visited) + 1

TotalLines == { "WALL_TOTAL", "ENEMY_TOTAL", "DONE" }

Printed(line) == \E i \in 1..Len(out) : out[i].line = line

----------------------------------------------------------------------------
(* C1 *)

\* C1: a visit whose source path does not exist returns False, saves no
\* destination file (neither its own nor any other), leaves wall_count and
\* enemy_count as they were, raises nothing, and leaves main inside the same
\* loop, one item further on.
C1_MissingSourceIsSkipped ==
    [][ (VisitStep /\ Last(visited').fs = "missing")
          => /\ Last(visited').ret = FALSE
             /\ written' = written
             /\ call'.dst \notin written'
             /\ wall_count' = wall_count
             /\ enemy_count' = enemy_count
             /\ failure' = "none"
             /\ pc' = pc
             /\ wi' + fi' = wi + fi + 1 ]_vars

\* An enemy frame was missing and skipped, and the frame right after it
\* was converted.
C1_Witness ==
    \E i \in (NumWalls + 1)..(Len(visited) - 1) :
        /\ visited[i].fs = "missing"
        /\ ~visited[i].ret
        /\ visited[i + 1].ret

----------------------------------------------------------------------------
(* C4 *)

\* C4: a visit whose decode or encode raises ends main in that very step
\* with nothing saved and no counter changed by it, and no step is ever taken
\* from the failed state: no later item is visited, no counter changes and
\* no saved file goes away.
C4_FailureEndsBatch ==
    /\ [][ (VisitStep /\ Last(visited').fs \in {"undecodable", "unwritable"})
             => /\ pc' = "failed"
                /\ failure' \in {"decode", "encode"}
                /\ written' = written
                /\ wall_count' = wall_count
                /\ enemy_count' = enemy_count ]_vars
    /\ [][ pc # "failed" ]_vars

\* An enemy frame failed after files had been saved and with items left.
C4_Witness ==
    /\ pc = "failed"
    /\ failure \in {"decode", "encode"}
    /\ Len(visited) > NumWalls
    /\ Len(visited) < NumItems
    /\ Cardinality(written) >= 2

----------------------------------------------------------------------------
(* C6 *)

\* C6: every enemy frame is read from {prefix}{frame}{digit}.bmp with digit
\* "1" for the frames A..E and "0" for F and later, and is saved as the
\* lowercase frame letter plus ".png" in its category's directory.
C6_EnemyFileNames ==
    (Len(visited) > NumWalls)
      => /\ call.src = ExpectedSrc(Len(visited))
         /\ call.dst = ExpectedDst(Len(visited))

\* The guard's frames E and F and the mutant's frame P were all converted.
C6_Witness ==
    /\ Len(visited) = NumItems
    /\ visited[NumWalls + 5].ret
    /\ visited[NumWalls + 6].ret
    /\ visited[NumItems].ret

----------------------------------------------------------------------------
(* C8 *)

\* C8: wall_count never exceeds 10 and enemy_count never exceeds 59, and no
\* printed total exceeds them either.
C8_CountsBounded ==
    /\ wall_count <= 10
    /\ enemy_count <= 59
    /\ \A i \in 1..Len(out) :
          /\ out[i].line = "WALL_TOTAL" => out[i].arg <= 10
          /\ out[i].line = "ENEMY_TOTAL" => out[i].arg <= 59
          /\ out[i].line = "DONE" => out[i].arg[1] <= 10 /\ out[i].arg[2] <= 59

\* Every source was present: both bounds are met.
C8_Witness == pc = "done" /\ wall_count = 10 /\ enemy_count = 59

----------------------------------------------------------------------------
(* C9 *)

\* C9: items are visited once each in table order; a counter goes up by one
\* exactly in a step that visits an item of its phase with result True and
\* is otherwise unchanged; when main is done, wall_count is the number of
\* wall files saved and enemy_count the number of enemy files saved.
C9_CountsMatchFiles ==
    /\ [][ LET hit(walls) ==
                 /\ VisitStep
                 /\ (Len(visited') <= NumWalls) = walls
                 /\ Last(visited').ret
           IN  /\ wall_count' = wall_count + (IF hit(TRUE) THEN 1 ELSE 0)
               /\ enemy_count' = enemy_count + (IF hit(FALSE) THEN 1 ELSE 0)
       ]_vars
    /\ []( /\ wi = Min(Len(visited), NumWalls)
           /\ (Len(visited) >= 1) =>
                 call.dst = ExpectedDst(Len(visited))
           /\ (pc = "done") =>
                 /\ Len(visited) = NumItems
                 /\ wall_count = Cardinality(written \cap WallDsts)
                 /\ enemy_count = Cardinality(written \cap EnemyDsts)
                 /\ written \subseteq (WallDsts \cup EnemyDsts) )

\* main finished with every wall converted and one enemy frame skipped.
C9_Witness ==
    /\ pc = "done"
    /\ wall_count = NumWalls
    /\ enemy_count = Len(EnemyItems) - 1

----------------------------------------------------------------------------
(* C7 *)

\* C7 as stated, in the form a finite run refutes: main never ends in
\* failure unless a present source failed to decode or to encode.
C7_EndsOnlyOnBadSource ==
    (pc = "failed") => failure \in {"decode", "encode"}

\* C7 amended: every run of main ends, at the Done line or by an exception;
\* an exception comes only from a makedirs that raised or from a present
\* source that failed to decode or encode, never from a missing source; and
\* when main is done with every source missing it visited all 69 items,
\* saved nothing and printed 0 for both totals.
C7_Amended ==
    /\ <>(pc = "done" \/ pc = "failed")
    /\ []( (pc = "failed") =>
             \/ failure = "mkdir"
             \/ /\ failure \in {"decode", "encode"}
                /\ Len(visited) >= 1
                /\ Last(visited).fs \in {"undecodable", "unwritable"} )
    /\ []( (pc # "failed") => failure = "none" )
    /\ []( ( /\ pc = "done"
             /\ \A i \in 1..Len(visited) : visited[i].fs = "missing" )
           => /\ Len(visited) = NumItems
              /\ written = {}
              /\ wall_count = 0
              /\ enemy_count = 0
              /\ \E i \in 1..Len(out) :
                    out[i] = [line |-> "WALL_TOTAL", arg |-> 0]
              /\ \E i \in 1..Len(out) :
                    out[i] = [line |-> "ENEMY_TOTAL", arg |-> 0]
              /\ Last(out) = [line |-> "DONE", arg |-> << 0, 0 >>] )

\* main is done and every one of the 69 sources was missing.
C7_Witness ==
    /\ pc = "done"
    /\ Len(visited) = NumItems
    /\ \A i \in 1..Len(visited) : visited[i].fs = "missing"

----------------------------------------------------------------------------
(* C10 *)

\* C10 as stated: no total is printed while any of the 69 items is still
\* unvisited.
C10_TotalsOnlyAfterAllItems ==
    (\E i \in 1..Len(out) : out[i].line \in TotalLines)
        => Len(visited) = NumItems

\* C10 amended: the wall total is printed only once all 10 walls were
\* visited, with the value wall_count keeps from then on; the enemy total
\* and the Done line are printed only once all 69 items were visited, with
\* the final counter values.
C10_Amended ==
    \A i \in 1..Len(out) :
        /\ (out[i].line = "WALL_TOTAL") =>
              /\ Len(visited) >= NumWalls
              /\ \A k \in 1..NumWalls : visited[k].raised = "none"
              /\ out[i].arg = wall_count
        /\ (out[i].line = "ENEMY_TOTAL") =>
              /\ Len(visited) = NumItems
              /\ out[i].arg = enemy_count
        /\ (out[i].line = "DONE") =>
              /\ Len(visited) = NumItems
              /\ out[i].arg = << wall_count, enemy_count >>

\* The wall total is printed and no enemy frame was visited yet.
C10_Witness ==
    /\ Printed("WALL_TOTAL")
    /\ Len(visited) = NumWalls
    /\ wall_count >= 1

----------------------------------------------------------------------------
(* C2, C3, C5: the pixels.                                                 *)

RGB(p) == << p[1], p[2], p[3] >>

\* The decoded RGBA image of the source file.
Decoded == ConvertRGBA(src_img)

FirstPassSaved == ipc = "enemy_saved" /\ Len(saved) = 1

\* C2: with the key the (R,G,B) of decoded pixel (0,0), the image
\* convert_enemy saves has the decoded size and, at every pixel, the decoded
\* R,G,B, alpha 0 where the decoded (R,G,B) equals the key and the decoded
\* alpha everywhere else.
C2_ColorkeyExact ==
    FirstPassSaved =>
        LET key == RGB(Decoded.px[<< 0, 0 >>])
            png == saved[1]
        IN  /\ png.w = Decoded.w
            /\ png.h = Decoded.h
            /\ DOMAIN png.px = Coords(Decoded.w, Decoded.h)
            /\ \A xy \in Coords(Decoded.w, Decoded.h) :
                  /\ RGB(png.px[xy]) = RGB(Decoded.px[xy])
                  /\ png.px[xy][4] = IF RGB(Decoded.px[xy]) = key
                                     THEN 0
                                     ELSE Decoded.px[xy][4]

\* A saved sprite whose key pixel (0,0) was decoded transparent, with an
\* opaque pixel of the key colour made transparent, and two pixels of other
\* colours left as decoded, one opaque and one transparent.
C2_Witness ==
    /\ FirstPassSaved
    /\ Decoded.px[<< 0, 0 >>][4] = 0
    /\ \E xy \in Coords(Decoded.w, Decoded.h) :
          /\ RGB(Decoded.px[xy]) = RGB(Decoded.px[<< 0, 0 >>])
          /\ Decoded.px[xy][4] = 255
          /\ saved[1].px[xy][4] = 0
    /\ \E xy \in Coords(Decoded.w, Decoded.h) :
          /\ RGB(Decoded.px[xy]) # RGB(Decoded.px[<< 0, 0 >>])
          /\ saved[1].px[xy][4] = 255
    /\ \E xy \in Coords(Decoded.w, Decoded.h) :
          /\ RGB(Decoded.px[xy]) # RGB(Decoded.px[<< 0, 0 >>])
          /\ saved[1].px[xy][4] = 0

\* C3: the image convert_wall saves has the source's width and height; when
\* the source has no alpha channel every pixel has alpha 255; and in every
\* case no colorkey is applied: each pixel keeps the source's colour and (if
\* it has one) the source's alpha.
C3_WallOpaqueSameSize ==
    (ipc = "wall_saved") =>
        LET png == saved[1]
        IN  /\ Len(saved) = 1
            /\ png.w = src_img.w
            /\ png.h = src_img.h
            /\ DOMAIN png.px = Coords(src_img.w, src_img.h)
            /\ (src_img.mode \in {"P", "RGB"}) =>
                  \A xy \in DOMAIN png.px : png.px[xy][4] = 255
            /\ \A xy \in DOMAIN png.px :
                  CASE src_img.mode = "P" ->
                         RGB(png.px[xy]) = Palette[src_img.px[xy]]
                    [] src_img.mode = "RGB" ->
                         RGB(png.px[xy]) = src_img.px[xy]
                    [] OTHER -> png.px[xy] = src_img.px[xy]

\* A saved 2x2 wall from a palette source, all of one colour (the colour of
\* pixel (0,0)).
C3_Witness ==
    /\ ipc = "wall_saved"
    /\ src_img.mode = "P"
    /\ src_img.w = 2
    /\ src_img.h = 2
    /\ \A xy \in Coords(2, 2) : src_img.px[xy] = src_img.px[<< 0, 0 >>]
    /\ \A xy \in Coords(2, 2) : saved[1].px[xy][4] = 255

\* C5: converting the saved sprite again saves the very same image: the same
\* transparency mask and the same R,G,B at every pixel.
C5_ColorkeyIdempotent ==
    (ipc = "enemy_saved" /\ Len(saved) = 2) => saved[2] = saved[1]

\* Two passes were saved of a sprite that has a pixel made transparent by
\* the key, an opaque pixel, and an opaque black pixel that is not the key.
C5_Witness ==
    /\ ipc = "enemy_saved"
    /\ Len(saved) = 2
    /\ RGB(Decoded.px[<< 0, 0 >>]) # << 0, 0, 0 >>
    /\ Decoded.px[<< 0, 0 >>][4] = 255
    /\ saved[1].px[<< 0, 0 >>][4] = 0
    /\ \E xy \in DOMAIN saved[2].px : saved[2].px[xy] = << 0, 0, 0, 255 >>

====
